---- MODULE Spec2Model ----
(***************************************************************************)
(* A model of the resale-data-engine ingestion pipeline:                   *)
(*   jobs/backfill_ebay.py  call_finding, normalize_item, save_listings,   *)
(*                          main (the ingestion driver)                    *)
(*   data_fetch.py          _rate_limited, _fetch, to_df_completed,        *)
(*                          to_df_live, fetch_completed_or_live            *)
(*   ml/predictor.py        prepare_df, train_time_trend                   *)
(*   pages/1_Predict.py     the Predict page                               *)
(* Times are in tenths of a second.                                        *)
(***************************************************************************)
EXTENDS Integers, Sequences, FiniteSets, TLC

(* ------------------------------ bounds --------------------------------- *)
\* number of entries of QUERIES
NumQueries == 2
\* REQUEST_BUDGET ranges over 0..MaxBudget
MaxBudget == 3
\* MAX_PAGES ranges over 1..MaxPagesBound
MaxPagesBound == 3
\* MAX_RETRIES (call_finding) and max_retries (_fetch) range over 0..MaxRetriesBound
MaxRetriesBound == 2
\* a max_wait of _fetch shorter than its default, in tenths of a second
ShortMaxWait == 20

(* ------------------------- program constants --------------------------- *)
\* COOLDOWN_SECS = 180 s, the default of EBAY_COOLDOWN_SECS
COOLDOWN_SECS == 1800
\* random.randint(5, 30) seconds of cooldown jitter: its two ends
CooldownJitterMin == 50
CooldownJitterMax == 300
\* BASE_SLEEP = 0.6 s
BASE_SLEEP == 6
\* random.random() * 0.4 s: its two ends
PacingJitterMax == 4
\* random.random() s: its two ends
BackoffJitterMax == 9
\* the page size the driver falls back to
ReducedEntries == 50
\* _fetch: sleep_s starts at 0.8 s and is capped at 2 s; max_wait = 5.0 s
FetchFirstSleep == 8
FetchSleepCap == 20
FetchMaxWait == 50

RETRY_STATUS == {429, 500, 502, 503, 504}

VARIABLES
    \* ---- configuration (os.environ), fixed for a behaviour
    cfg,
    \* ---- the upstream data set served by the marketplace API
    data,
    \* ---- main()
    pc, order, qi, page, requests_used, total_saved, consecutive_errors,
    entries, payload, store, reports, run,
    \* ---- the fetch client invocation in progress (call_finding or _fetch)
    client, cstate, attempt, sent, slept, sleep_s, lastResp, delays,
    \* ---- observation of the driver's requests
    waited, lastReq, rlQueries, lastProc, trouble, written, firstRun,
    \* ---- a function or page taken on its own: its name, its input and
    \* ---- what it has returned or shown
    fn, item, out

cfgVars    == <<cfg, data>>
driverVars == <<pc, order, qi, page, requests_used, total_saved,
                consecutive_errors, entries, payload, store, reports, run>>
clientVars == <<client, cstate, attempt, sent, slept, sleep_s, lastResp, delays>>
obsVars    == <<waited, lastReq, rlQueries, lastProc, trouble, written,
                firstRun>>
itemVars   == <<fn, item, out>>
vars == <<cfgVars, driverVars, clientVars, obsVars, itemVars>>

(* ======================================================================= *)
(* Upstream responses                                                      *)
(* ======================================================================= *)
\* status 0 stands for a transport failure (timeout, connection error): no
\* response at all.  ctjson: the Content-Type names json.  parse: the body is
\* valid JSON.  rl: where the body carries the RateLimiter 10001 error, as
\* top-level errorMessage or inside the per-operation response.  compact:
\* the body text has no whitespace between tokens.  err: the per-operation
\* response carries another (non rate-limit) errorMessage.  root: the body
\* holds a non-empty "<operation>Response".
StatusCodes == {0, 200, 400, 429, 500}

WellFormed(r) ==
    /\ (r.status = 0 => ~r.parse /\ ~r.ctjson)
    /\ (~r.parse => r.rl = "none" /\ ~r.err /\ ~r.root)
    /\ (r.rl = "nested" => r.root)
    /\ (r.err => r.root)
    /\ (r.rl = "none" => r.compact)

Responses ==
    { r \in [status : StatusCodes, ctjson : BOOLEAN, parse : BOOLEAN,
             rl : {"none", "top", "nested"}, compact : BOOLEAN,
             err : BOOLEAN, root : BOOLEAN] : WellFormed(r) }

NoResp == [status |-> 0, ctjson |-> FALSE, parse |-> FALSE, rl |-> "none",
           compact |-> TRUE, err |-> FALSE, root |-> FALSE]

\* the body carries error code 10001 with subdomain RateLimiter
CarriesRateLimit(r) == r.rl # "none"

(* ======================================================================= *)
(* jobs/backfill_ebay.py: call_finding                                     *)
(* ======================================================================= *)
Retry(d)    == [act |-> "retry", delay |-> d]
Return      == [act |-> "return", delay |-> 0]
Raise       == [act |-> "raise", delay |-> 0]
RaiseRLRetried == [act |-> "retry", delay |-> 10]
\* lines 39, 63 and 72-74: RateLimited is raised and passed on to the caller
RaiseRL     == [act |-> "rate_limited", delay |-> 0]

\* line 38: the marker is searched in the raw text of the body
TextMarker(r) == r.rl # "none" /\ r.compact

RequestExceptionHandlerDoubles(a, j, maxRetries) ==
    IF a >= maxRetries THEN Raise ELSE Retry(10 * 2 ^ (a - 1) + j)
RequestExceptionHandlerOneMore(a, j, maxRetries) ==
    IF a > maxRetries THEN Raise ELSE Retry(10 * a + j)
\* lines 76-80: except requests.exceptions.RequestException
RequestExceptionHandler(a, j, maxRetries) ==
    IF a >= maxRetries THEN Raise ELSE Retry(10 * a + j)

InlineErrorsRaises(a, r, j, maxRetries) ==
    LET err == (r.rl = "nested") \/ r.err IN
    IF err
    THEN IF r.rl = "nested" THEN RaiseRL
         ELSE IF a >= maxRetries THEN Raise ELSE Retry(10 * a + j)
    ELSE Return
\* lines 57-70: inline errors of a parsed body
InlineErrors(a, r, j, maxRetries) ==
    LET err == (r.rl = "nested") \/ r.err IN
    IF err
    THEN IF r.rl = "nested" THEN RaiseRL
         ELSE IF a >= maxRetries THEN Return ELSE Retry(10 * a + j)
    ELSE Return

\* lines 31-80: one pass of the while loop, attempt already incremented to a
CallFindingAttempt(a, r, j, maxRetries) ==
    IF r.status = 0 THEN RequestExceptionHandler(a, j, maxRetries)
    ELSE IF r.status \in RETRY_STATUS
    THEN IF TextMarker(r) THEN RaiseRL
         ELSE IF a >= maxRetries
              THEN RequestExceptionHandler(a, j, maxRetries) \* raise_for_status
              ELSE Retry(12 * a + j)
    ELSE IF r.status \notin 200..299
    THEN RequestExceptionHandler(a, j, maxRetries)         \* raise_for_status
    ELSE IF ~r.parse
    THEN IF a >= maxRetries THEN Raise ELSE Retry(10 * a + j)
    ELSE InlineErrors(a, r, j, maxRetries)

(* ======================================================================= *)
(* data_fetch.py: _rate_limited, _fetch                                    *)
(* ======================================================================= *)
\* line 70: data = r.json() if "json" in ct else {}
FetchData(r) == IF r.ctjson THEN r ELSE NoResp

\* lines 35-43: only payload.get("errorMessage"), the top-level placement
_rate_limited(d) == d.rl = "top"

FetchAttemptNoMaxWait(r, sl, ss, maxWait, last) ==
    IF r.status = 0 THEN [act |-> "raise", why |-> "transport", delay |-> 0]
    ELSE IF r.ctjson /\ ~r.parse THEN [act |-> "raise", why |-> "json", delay |-> 0]
    ELSE LET d == FetchData(r) IN
         IF r.status = 200 /\ ~_rate_limited(d)
         THEN IF d.root THEN [act |-> "return", why |-> "ok", delay |-> 0]
              ELSE [act |-> "return", why |-> "unexpected-shape", delay |-> 0]
         ELSE IF r.status >= 500 \/ _rate_limited(d)
         THEN IF last
              THEN [act |-> "return", why |-> "blocked", delay |-> ss]
              ELSE [act |-> "retry", why |-> "blocked", delay |-> ss]
         ELSE [act |-> "return", why |-> "blocked", delay |-> 0]
\* lines 68-85: one pass of the for loop; last: this is the final pass
FetchAttempt(r, sl, ss, maxWait, last) ==
    IF r.status = 0 THEN [act |-> "raise", why |-> "transport", delay |-> 0]
    ELSE IF r.ctjson /\ ~r.parse THEN [act |-> "raise", why |-> "json", delay |-> 0]
    ELSE LET d == FetchData(r) IN
         IF r.status = 200 /\ ~_rate_limited(d)
         THEN IF d.root THEN [act |-> "return", why |-> "ok", delay |-> 0]
              ELSE [act |-> "return", why |-> "unexpected-shape", delay |-> 0]
         ELSE IF r.status >= 500 \/ _rate_limited(d)
         THEN IF sl + ss > maxWait
              THEN [act |-> "return", why |-> "blocked", delay |-> 0]
              ELSE IF last
                   THEN [act |-> "return", why |-> "blocked", delay |-> ss]
                   ELSE [act |-> "retry", why |-> "blocked", delay |-> ss]
         ELSE [act |-> "return", why |-> "blocked", delay |-> 0]

(* ======================================================================= *)
(* Raw items and Python values                                             *)
(* ======================================================================= *)
\* A raw item is described by the shape of each field the code reads:
\*   "absent"  the key is missing
\*   "empty"   the value is an empty list
\*   "single"  the value is a singleton list wrapping a scalar or an object
\*             (the encoding the marketplace API uses)
\*   "dict"    the value is a plain object, not wrapped in a list
\* currentPrice is the shape of that key inside sellingStatus; value is the
\* text of its __value__: absent, a number ("num"), "0.00" ("zero") or text
\* that is no number ("junk").  id is the listing id itemId wraps, ver the
\* revision of the listing's contents.
LeafShapes == {"absent", "empty", "single"}
ContShapes == {"absent", "empty", "single", "dict"}
ValueKinds == {"absent", "num", "zero", "junk"}

\* Python values: None, an empty list, a singleton list of the string or
\* number coded v, a string, a float
None      == [t |-> "None", v |-> 0]
EmptyList == [t |-> "list0", v |-> 0]
ListOf(x) == [t |-> "list1", v |-> x]
Str(x)    == [t |-> "str", v |-> x]
Num(x)    == [t |-> "num", v |-> x]
\* string codes: -1 is the empty string "", -2 a text that is no number,
\* -3 the string "USD"; a price string is coded by its amount in cents, any
\* other text by a positive number
EmptyStr == Str(0 - 1)
JunkStr  == Str(0 - 2)
USD      == Str(0 - 3)
Truthy(x) == x.t \in {"list1", "num"} \/ (x.t = "str" /\ x # EmptyStr)

\* dict.get(key) of a leaf of the given shape wrapping the string coded x
LeafGet(shape, x) ==
    CASE shape = "absent" -> None
      [] shape = "empty"  -> EmptyList
      [] shape = "single" -> ListOf(x)

PriceCents(it) == 20000 + 100 * it.ver

\* the __value__ text of the item's currentPrice (a plain string, as the API
\* sends it)
PriceText(it) ==
    CASE it.value = "absent" -> None
      [] it.value = "num"    -> Str(PriceCents(it))
      [] it.value = "zero"   -> Str(0)
      [] it.value = "junk"   -> JunkStr
\* float(s) of a string: the cents, or no number
IsNumeric(s) == s.t = "str" /\ s.v >= 0
Float(s) == Num(s.v)

(* ======================================================================= *)
(* jobs/backfill_ebay.py: _first, normalize_item                           *)
(* ======================================================================= *)
\* lines 95-98
_first(v, default) ==
    IF v.t = "list1" THEN Str(v.v)
    ELSE IF v # None THEN v ELSE default

Raised(e) == [ok |-> FALSE, exc |-> e, row |-> <<>>]
Row(r)    == [ok |-> TRUE, exc |-> "", row |-> r]

\* x.get(...) is possible only on a dict
HasGet(shape) == shape = "dict"

\* lines 100-118
normalize_item(it) ==
    \* 101-102: selling = item.get("sellingStatus", {}); the default of
    \* selling.get("currentPrice", [{}]) is a list
    IF ~(it.sellingStatus \in {"absent", "dict"}) THEN Raised("AttributeError")
    ELSE IF it.sellingStatus = "absent" \/ ~HasGet(it.currentPrice)
    THEN Raised("AttributeError")
    ELSE LET current_price == _first(PriceText(it), None) IN
    \* 108: item.get("primaryCategory", [{}]).get("categoryName")
    IF ~HasGet(it.primaryCategory) THEN Raised("AttributeError")
    \* 109: float(current_price) if current_price else None
    ELSE IF Truthy(current_price) /\ ~IsNumeric(current_price)
    THEN Raised("ValueError")
    \* 111-116: sellerInfo, condition, listingInfo
    ELSE IF ~HasGet(it.sellerInfo) \/ ~HasGet(it.condition)
            \/ ~HasGet(it.listingInfo)
    THEN Raised("AttributeError")
    ELSE Row([marketplace |-> "ebay",
              status      |-> "completed",
              listing_id  |-> _first(LeafGet(it.itemId, it.id), None),
              title       |-> _first(LeafGet(it.title, 100 + it.ver), EmptyStr),
              category    |-> _first(ListOf(7), EmptyStr),
              price       |-> IF Truthy(current_price)
                              THEN Float(current_price) ELSE None,
              currency    |-> _first(None, USD),
              seller      |-> _first(ListOf(8), EmptyStr),
              seller_feedback |-> Num(0),
              condition   |-> _first(ListOf(9), EmptyStr),
              image       |-> _first(LeafGet(it.galleryURL, 10), EmptyStr),
              start_time  |-> _first(None, None),
              end_time    |-> _first(ListOf(11), None)])

(* ======================================================================= *)
(* data_fetch.py: the row builders of to_df_completed and to_df_live       *)
(* ======================================================================= *)
\* (it.get(key) or [{}])[0] of a container: "none" stands for the empty
\* object {}, "obj" for the wrapped object, "KeyError" for a plain object
\* indexed with [0]
OrFirst(shape) ==
    CASE shape \in {"absent", "empty"} -> "none"
      [] shape = "single" -> "obj"
      [] shape = "dict" -> "KeyError"

\* float(x["__value__"]) of the price object
PriceOf(it) ==
    IF it.value = "absent" THEN Raised("KeyError")
    ELSE IF ~IsNumeric(PriceText(it)) THEN Raised("ValueError")
    ELSE Row(Float(PriceText(it)))

\* line 109: float((it.get("sellingStatus") or [{}])[0]
\*              .get("currentPrice", [{"__value__": "0"}])[0]["__value__"])
CompletedPrice(it) ==
    LET s == OrFirst(it.sellingStatus) IN
    IF s = "KeyError" THEN Raised("KeyError")
    ELSE IF s = "none" \/ it.currentPrice = "absent" THEN Row(Num(0))
    ELSE IF it.currentPrice = "empty" THEN Raised("IndexError")
    ELSE IF it.currentPrice = "dict" THEN Raised("KeyError")
    ELSE PriceOf(it)

\* lines 132-133: (selling.get("currentPrice") or [{"__value__": "0"}])[0]
LivePrice(it) ==
    LET s == OrFirst(it.sellingStatus) IN
    IF s = "KeyError" THEN Raised("KeyError")
    ELSE IF s = "none" \/ it.currentPrice \in {"absent", "empty"} THEN Row(Num(0))
    ELSE IF it.currentPrice = "dict" THEN Raised("KeyError")
    ELSE PriceOf(it)

\* lines 108-118: one row of to_df_completed; date 0 stands for NaT
to_df_completed_row(it) ==
    LET p == CompletedPrice(it)
        l == OrFirst(it.listingInfo) IN
    IF ~p.ok THEN p
    ELSE IF l = "KeyError" THEN Raised("KeyError")
    ELSE Row([title |-> IF it.title = "single" THEN Str(100 + it.ver) ELSE EmptyStr,
              sold_price |-> p.row, shipping |-> Num(0),
              total_price |-> p.row,
              date |-> IF l = "obj" THEN 1 ELSE 0])

\* lines 131-136: one row of to_df_live
to_df_live_row(it) ==
    LET p == LivePrice(it) IN
    IF ~p.ok THEN p
    ELSE Row([title |-> IF it.title = "single" THEN Str(100 + it.ver) ELSE EmptyStr,
              ask_price |-> p.row, shipping |-> Num(0), total_ask |-> p.row])

(* ======================================================================= *)
(* The upstream data: what page p of query q holds                         *)
(* ======================================================================= *)
\* a listing in plain-object form, which normalize_item accepts
Good(id) ==
    [itemId |-> "single", id |-> id, ver |-> 1, title |-> "single",
     sellingStatus |-> "dict", currentPrice |-> "dict", value |-> "num",
     primaryCategory |-> "dict", sellerInfo |-> "dict", condition |-> "dict",
     galleryURL |-> "single", listingInfo |-> "dict"]
\* the same without an itemId
NoId == [Good(0) EXCEPT !.itemId = "absent"]
\* a listing as the API encodes it: every field a singleton list
Wrapped(id) ==
    [itemId |-> "single", id |-> id, ver |-> 1, title |-> "single",
     sellingStatus |-> "single", currentPrice |-> "single", value |-> "num",
     primaryCategory |-> "single", sellerInfo |-> "single",
     condition |-> "single", galleryURL |-> "single", listingInfo |-> "single"]

\* a listing whose price text is no number
BadPrice(id) == [Good(id) EXCEPT !.value = "junk"]

DataSets == {"plain", "mixed", "api"}

\* resp["findCompletedItemsResponse"][0]["searchResult"][0]["item"] of page p
\* of query q; listing q+1 is found by query q and by query q+1
PageData(d, q, p) ==
    CASE d = "plain" -> IF p = 1 THEN <<Good(q), Good(q + 1)>>
                        ELSE IF p = 2 THEN <<Good(q), NoId>>
                        ELSE <<>>
      [] d = "mixed" -> IF p = 1 THEN <<Good(q), BadPrice(q + 1)>>
                        ELSE <<Good(q + 2)>>
      [] d = "api"   -> <<Wrapped(q), Wrapped(q + 1)>>

(* ======================================================================= *)
(* jobs/backfill_ebay.py: save_listings                                    *)
(* ======================================================================= *)
DocIdPerRun(r) == <<r.marketplace, r.status, r.listing_id.v + 100 * run>>
\* line 138: doc_id = f'{r["marketplace"]}_{r["status"]}_{item_id}'
DocId(r) == <<r.marketplace, r.status, r.listing_id.v>>

HasListingIdAlways(r) == TRUE
\* line 136: if not item_id: continue
HasListingId(r) == Truthy(r.listing_id)

\* batch.set(ref, r, merge=True): the fields of r overwrite, the others stay
MergeDoc(old, new) ==
    [f \in DOMAIN old \cup DOMAIN new |->
        IF f \in DOMAIN new THEN new[f] ELSE old[f]]

\* lines 134-140: the rows written, in order
Written(rows) == SelectSeq(rows, HasListingId)

\* lines 128-142 with a commit that succeeds: the store afterwards
SaveListings(st, rows) ==
    LET w   == Written(rows)
        ids == {DocId(w[i]) : i \in 1..Len(w)}
        Last(d) == CHOOSE i \in 1..Len(w) :
                      /\ DocId(w[i]) = d
                      /\ \A k \in (i + 1)..Len(w) : DocId(w[k]) # d
    IN [d \in DOMAIN st \cup ids |->
          IF d \in ids
          THEN IF d \in DOMAIN st THEN MergeDoc(st[d], w[Last(d)])
               ELSE w[Last(d)]
          ELSE st[d]]

\* line 142: the count returned
SaveCount(rows) == Len(Written(rows))

(* ======================================================================= *)
(* jobs/backfill_ebay.py: main                                             *)
(* ======================================================================= *)
Configs ==
    [budget : 0..MaxBudget, maxPages : 1..MaxPagesBound,
     maxRetries : 0..MaxRetriesBound, entriesPerPage : {40, 100},
     maxWait : {FetchMaxWait}]

QueryOrders(n) ==
    { f \in [1..n -> 1..n] : \A i, k \in 1..n : f[i] = f[k] => i = k }

NoReq == [qi |-> 0, q |-> 0, page |-> 0, entries |-> 0, outcome |-> "none"]
NoProc == [q |-> 0, page |-> 0, items |-> <<>>, result |-> "none", saved |-> 0]

CurQ == order[qi]

\* line 166
BudgetReachedNever == FALSE
BudgetReachedOffByOne == requests_used > cfg.budget
BudgetReached == requests_used >= cfg.budget

AfterBreakNoReport(ce, en) ==
    IF qi < NumQueries
    THEN [pc |-> "page", qi |-> qi + 1, page |-> 1, ce |-> 0,
          en |-> cfg.entriesPerPage, rep |-> reports]
    ELSE [pc |-> "done", qi |-> qi, page |-> page, ce |-> ce, en |-> en,
          rep |-> reports]
\* the loop state after "break" (or after the last page): line 213, then
\* the next query, or line 215 after the last one
AfterBreak(ce, en) ==
    IF qi < NumQueries
    THEN [pc |-> "page", qi |-> qi + 1, page |-> 1, ce |-> 0,
          en |-> cfg.entriesPerPage, rep |-> reports]
    ELSE [pc |-> "done", qi |-> qi, page |-> page, ce |-> ce, en |-> en,
          rep |-> reports + 1]

AfterContinueSamePage(ce, en) ==
    IF page < cfg.maxPages
    THEN [pc |-> "page", qi |-> qi, page |-> page, ce |-> ce, en |-> en,
          rep |-> reports]
    ELSE AfterBreak(ce, en)
\* the loop state after "continue" or after the end of the loop body
AfterContinue(ce, en) ==
    IF page < cfg.maxPages
    THEN [pc |-> "page", qi |-> qi, page |-> page + 1, ce |-> ce, en |-> en,
          rep |-> reports]
    ELSE AfterBreak(ce, en)

ErrorHandlerAlwaysReduces(ce, en) ==
    LET c == ce + 1 IN
    IF c = 2 THEN AfterContinue(c, ReducedEntries)
    ELSE IF c >= 3 THEN AfterBreak(c, en)
    ELSE AfterContinue(c, en)
ErrorHandlerNeverAbandons(ce, en) ==
    LET c == ce + 1 IN
    IF c = 2 /\ en > 50 THEN AfterContinue(c, ReducedEntries)
    ELSE AfterContinue(c, en)
\* lines 199-211: except Exception
ErrorHandler(ce, en) ==
    LET c == ce + 1 IN
    IF c = 2 /\ en > 50 THEN AfterContinue(c, ReducedEntries)
    ELSE IF c >= 3 THEN AfterBreak(c, en)
    ELSE AfterContinue(c, en)

RateLimitHandlerContinues(ce, en) == AfterContinue(ce + 1, en)
\* lines 190-197: except RateLimited
RateLimitHandler(ce, en) == AfterBreak(ce + 1, en)

SetLoop(ls) ==
    /\ pc' = ls.pc /\ qi' = ls.qi /\ page' = ls.page
    /\ consecutive_errors' = ls.ce /\ entries' = ls.en /\ reports' = ls.rep

(* ------------------------- the fetch client ---------------------------- *)
ClientState(act) ==
    CASE act = "retry"        -> "running"
      [] act = "return"       -> "returned"
      [] act = "rate_limited" -> "rate_limited"
      [] act = "raise"        -> "raised"

\* the fetch client's locals after one pass of its loop; attempt is a local
\* of the invocation and goes with it
ClientAfter(act) ==
    /\ sent' = sent + 1
    /\ attempt' = IF act = "retry" THEN attempt + 1 ELSE 0
    /\ cstate' = ClientState(act)
    /\ UNCHANGED <<client, slept, sleep_s>>

\* call_finding reads neither the Content-Type nor, once the body parsed,
\* its spacing
CallFindingResponses == { r \in Responses : r.ctjson = r.parse }

\* the responses the driver is run against: one or more for each branch of
\* call_finding (no 429, no results beside an error, no body worth reading
\* under a 400)
DriverResponses ==
    { r \in CallFindingResponses :
        /\ r.status # 429
        /\ (r.status # 200 => ~r.root)
        /\ (r.status = 400 => r.rl = "none")
        /\ (r.rl # "none" => ~r.err) }

ClientIdle ==
    /\ client = "none" /\ cstate = "idle" /\ attempt = 0 /\ sent = 0
    /\ slept = 0 /\ sleep_s = FetchFirstSleep /\ lastResp = NoResp
    /\ delays = <<>>

(* ------------------------------ main() --------------------------------- *)
ObsInit ==
    /\ waited = 0 /\ lastReq = NoReq /\ rlQueries = {} /\ lastProc = NoProc
    /\ trouble = FALSE /\ written = {}
    /\ firstRun = [store |-> <<>>, trouble |-> FALSE, written |-> {}]

NotApplied == [applied |-> FALSE, res |-> Raised("")]

ItemIdle ==
    /\ fn = "none" /\ item = Good(1) /\ out = NotApplied

DriverStart ==
    /\ pc = "start" /\ order = [i \in 1..NumQueries |-> i]
    /\ qi = 1 /\ page = 1 /\ requests_used = 0 /\ total_saved = 0
    /\ consecutive_errors = 0 /\ entries = cfg.entriesPerPage
    /\ payload = <<>> /\ store = <<>> /\ reports = 0 /\ run = 1

Init ==
    /\ cfg \in Configs /\ data \in DataSets
    /\ DriverStart /\ ClientIdle /\ ObsInit /\ ItemIdle

\* lines 150-152: a missing EBAY_APP_ID, FIREBASE_PROJECT_ID or credentials
\* file raises before the loop
StartupFails ==
    /\ pc = "start"
    /\ pc' = "failed"
    /\ UNCHANGED <<cfgVars, order, qi, page, requests_used, total_saved,
                   consecutive_errors, entries, payload, store, reports, run,
                   clientVars, obsVars, itemVars>>

\* lines 150-163: startup, random.shuffle(QUERIES), first query
Startup ==
    /\ pc = "start"
    /\ order' \in QueryOrders(NumQueries)
    /\ pc' = "page"
    /\ UNCHANGED <<cfgVars, qi, page, requests_used, total_saved,
                   consecutive_errors, entries, payload, store, reports, run,
                   clientVars, obsVars, itemVars>>

\* lines 166-169
BudgetStop ==
    /\ pc = "page" /\ BudgetReached
    /\ pc' = "done" /\ reports' = reports + 1
    /\ UNCHANGED <<cfgVars, order, qi, page, requests_used, total_saved,
                   consecutive_errors, entries, payload, store, run,
                   clientVars, obsVars, itemVars>>

\* line 172, lines 17-29: find_completed_items enters call_finding
BeginCall ==
    /\ pc = "page" /\ ~BudgetReached
    /\ pc' = "call"
    /\ client' = "call_finding" /\ cstate' = "running" /\ attempt' = 0
    /\ UNCHANGED <<cfgVars, order, qi, page, requests_used, total_saved,
                   consecutive_errors, entries, payload, store, reports, run,
                   sent, slept, sleep_s, lastResp, delays, obsVars, itemVars>>

\* the payload is the per-operation response with its search result
HasSearchResult(r) == r.root /\ ~r.err /\ r.rl = "none"

\* lines 175-177: the items of the payload call_finding returned
PayloadItems(r) ==
    IF HasSearchResult(r) THEN PageData(data, CurQ, page) ELSE <<>>

\* the request being sent and the outcome call_finding makes of it
Req(act) ==
    [qi |-> qi, q |-> CurQ, page |-> page, entries |-> entries,
     outcome |-> act]

\* lines 31-80, an outcome after which the while loop goes round again
AttemptRetries(r) ==
    \E j \in {0, BackoffJitterMax} :
    LET res == CallFindingAttempt(attempt + 1, r, j, cfg.maxRetries) IN
    /\ pc = "call" /\ res.act = "retry"
    /\ ClientAfter(res.act)
    /\ lastReq' = Req(res.act)
    /\ waited' = res.delay
    /\ trouble' = TRUE
    /\ UNCHANGED <<cfgVars, driverVars, lastResp, delays, rlQueries,
                   lastProc, written, firstRun, itemVars>>

\* lines 31-70 and 173-177: call_finding returns a payload
AttemptReturns(r) ==
    LET res == CallFindingAttempt(attempt + 1, r, 0, cfg.maxRetries) IN
    /\ pc = "call" /\ res.act = "return"
    /\ ClientAfter(res.act)
    /\ lastReq' = Req(res.act)
    /\ requests_used' = requests_used + 1
    /\ payload' = PayloadItems(r)
    /\ pc' = "process"
    /\ waited' = 0
    /\ trouble' = (trouble \/ ~HasSearchResult(r))
    /\ UNCHANGED <<cfgVars, order, qi, page, total_saved, consecutive_errors,
                   entries, store, reports, run, lastResp, delays, rlQueries,
                   lastProc, written, firstRun, itemVars>>

\* lines 39, 63, 72-74 and 190-197: RateLimited, cooldown, next query
AttemptRateLimited(r) ==
    \E cj \in {CooldownJitterMin, CooldownJitterMax} :
    LET res == CallFindingAttempt(attempt + 1, r, 0, cfg.maxRetries) IN
    /\ pc = "call" /\ res.act = "rate_limited"
    /\ ClientAfter(res.act)
    /\ lastReq' = Req(res.act)
    /\ SetLoop(RateLimitHandler(consecutive_errors, entries))
    /\ waited' = COOLDOWN_SECS + cj
    /\ rlQueries' = rlQueries \cup {CurQ}
    /\ trouble' = TRUE
    /\ UNCHANGED <<cfgVars, order, requests_used, total_saved, payload, store,
                   run, lastResp, delays, lastProc, written, firstRun,
                   itemVars>>

\* lines 42, 46, 53, 79 and 199-211: another exception leaves call_finding
AttemptRaises(r) ==
    LET res == CallFindingAttempt(attempt + 1, r, 0, cfg.maxRetries) IN
    /\ pc = "call" /\ res.act = "raise"
    /\ ClientAfter(res.act)
    /\ lastReq' = Req(res.act)
    /\ SetLoop(ErrorHandler(consecutive_errors, entries))
    /\ waited' = 0
    /\ trouble' = TRUE
    /\ UNCHANGED <<cfgVars, order, requests_used, total_saved, payload, store,
                   run, lastResp, delays, rlQueries, lastProc, written,
                   firstRun, itemVars>>

Attempt(r) ==
    \/ AttemptRetries(r)
    \/ AttemptReturns(r)
    \/ AttemptRateLimited(r)
    \/ AttemptRaises(r)

Normalized(items) == [i \in 1..Len(items) |-> normalize_item(items[i])]
Rows(items) == [i \in 1..Len(items) |-> normalize_item(items[i]).row]

Proc(result, n) ==
    [q |-> CurQ, page |-> page, items |-> payload, result |-> result,
     saved |-> n]

\* lines 178-180: an empty page ends the query
ProcessEmpty ==
    /\ pc = "process" /\ payload = <<>>
    /\ SetLoop(AfterBreak(consecutive_errors, entries))
    /\ lastProc' = Proc("empty", 0)
    /\ payload' = <<>>
    /\ UNCHANGED <<cfgVars, order, requests_used, total_saved, store, run,
                   clientVars, waited, lastReq, rlQueries, trouble, written,
                   firstRun, itemVars>>

\* line 182: normalize_item raises on some item of the page; lines 199-211
ProcessNormalizeFails ==
    /\ pc = "process" /\ payload # <<>>
    /\ \E i \in 1..Len(payload) : ~normalize_item(payload[i]).ok
    /\ SetLoop(ErrorHandler(consecutive_errors, entries))
    /\ lastProc' = Proc("normalize_failed", 0)
    /\ trouble' = TRUE
    /\ payload' = <<>>
    /\ UNCHANGED <<cfgVars, order, requests_used, total_saved, store, run,
                   clientVars, waited, lastReq, rlQueries, written, firstRun,
                   itemVars>>

\* lines 182-183, batch.commit() raises: nothing is written; lines 199-211
ProcessCommitFails ==
    /\ pc = "process" /\ payload # <<>>
    /\ \A i \in 1..Len(payload) : normalize_item(payload[i]).ok
    /\ SetLoop(ErrorHandler(consecutive_errors, entries))
    /\ lastProc' = Proc("commit_failed", 0)
    /\ trouble' = TRUE
    /\ payload' = <<>>
    /\ UNCHANGED <<cfgVars, order, requests_used, total_saved, store, run,
                   clientVars, waited, lastReq, rlQueries, written, firstRun,
                   itemVars>>

\* lines 182-188: the page is normalized, saved and counted
ProcessSaved(pj) ==
    /\ pc = "process" /\ payload # <<>>
    /\ \A i \in 1..Len(payload) : normalize_item(payload[i]).ok
    /\ LET rows == Rows(payload) IN
       /\ store' = SaveListings(store, rows)
       /\ total_saved' = total_saved + SaveCount(rows)
       /\ lastProc' = Proc("saved", SaveCount(rows))
       /\ written' = written \cup
                       {DocId(Written(rows)[i]) : i \in 1..SaveCount(rows)}
    /\ SetLoop(AfterContinue(0, entries))
    /\ waited' = waited + BASE_SLEEP + pj
    /\ payload' = <<>>
    /\ UNCHANGED <<cfgVars, order, requests_used, run, clientVars, lastReq,
                   rlQueries, trouble, firstRun, itemVars>>

Process ==
    \/ ProcessEmpty
    \/ ProcessNormalizeFails
    \/ ProcessCommitFails
    \/ \E pj \in {0, PacingJitterMax} : ProcessSaved(pj)

Next ==
    \/ StartupFails
    \/ Startup
    \/ BudgetStop
    \/ BeginCall
    \/ \E r \in DriverResponses : Attempt(r)
    \/ Process

Spec == Init /\ [][Next]_vars

(* ======================================================================= *)
(* The driver run a second time against the same store and upstream data   *)
(* ======================================================================= *)
RerunConfigs ==
    { c \in Configs : c.maxRetries = MaxRetriesBound /\ c.entriesPerPage = 100
                      /\ c.maxPages < MaxPagesBound }

InitRerun ==
    /\ cfg \in RerunConfigs /\ data \in DataSets
    /\ DriverStart /\ ClientIdle /\ ObsInit /\ ItemIdle

\* a new process runs main() again: its locals start afresh, the document
\* store keeps what the first run wrote
Rerun ==
    /\ pc = "done" /\ run = 1
    /\ run' = 2 /\ pc' = "start"
    /\ order' = [i \in 1..NumQueries |-> i]
    /\ qi' = 1 /\ page' = 1 /\ requests_used' = 0 /\ total_saved' = 0
    /\ consecutive_errors' = 0 /\ entries' = cfg.entriesPerPage
    /\ payload' = <<>> /\ reports' = 0
    /\ client' = "none" /\ cstate' = "idle" /\ attempt' = 0 /\ sent' = 0
    /\ waited' = 0 /\ lastReq' = NoReq /\ rlQueries' = {}
    /\ lastProc' = NoProc /\ trouble' = FALSE /\ written' = {}
    /\ firstRun' = [store |-> store, trouble |-> trouble, written |-> written]
    /\ UNCHANGED <<cfgVars, store, slept, sleep_s, lastResp, delays, itemVars>>

NextRerun == Next \/ Rerun

SpecRerun == InitRerun /\ [][NextRerun]_vars

(* ======================================================================= *)
(* One invocation of a fetch client on its own                             *)
(* ======================================================================= *)
ClientConfigs ==
    [budget : {0}, maxPages : {1}, maxRetries : 0..MaxRetriesBound,
     entriesPerPage : {100}, maxWait : {ShortMaxWait, FetchMaxWait}]

DriverIdle ==
    /\ pc = "idle" /\ order = [i \in 1..NumQueries |-> i]
    /\ qi = 1 /\ page = 1 /\ requests_used = 0 /\ total_saved = 0
    /\ consecutive_errors = 0 /\ entries = cfg.entriesPerPage
    /\ payload = <<>> /\ store = <<>> /\ reports = 0 /\ run = 1

InitClient ==
    /\ cfg \in ClientConfigs /\ data = "plain"
    /\ DriverIdle /\ ObsInit /\ ItemIdle
    /\ client \in {"call_finding", "_fetch"} /\ cstate = "running"
    /\ attempt = 0 /\ sent = 0 /\ slept = 0 /\ sleep_s = FetchFirstSleep
    /\ lastResp = NoResp /\ delays = <<>>

\* backfill_ebay.py lines 30-80: one pass of call_finding's while loop
CallFindingStep(r) ==
    \E j \in {0, BackoffJitterMax} :
    LET res == CallFindingAttempt(attempt + 1, r, j, cfg.maxRetries) IN
    /\ pc = "idle" /\ client = "call_finding" /\ cstate = "running"
    /\ ClientAfter(res.act)
    /\ lastResp' = r
    /\ delays' = IF res.act = "retry" THEN Append(delays, res.delay - j)
                 ELSE delays
    /\ UNCHANGED <<cfgVars, driverVars, obsVars, itemVars>>

Min(a, b) == IF a <= b THEN a ELSE b

\* data_fetch.py lines 67-85: one pass of _fetch's for loop
FetchStep(r) ==
    LET res == FetchAttempt(r, slept, sleep_s, cfg.maxWait,
                            attempt + 1 >= cfg.maxRetries + 1) IN
    /\ pc = "idle" /\ client = "_fetch" /\ cstate = "running"
    /\ sent' = sent + 1
    /\ attempt' = IF res.act = "retry" THEN attempt + 1 ELSE 0
    /\ cstate' = CASE res.act = "retry" -> "running"
                   [] res.act = "raise" -> "raised"
                   [] res.act = "return" -> res.why
    /\ slept' = slept + res.delay
    /\ sleep_s' = IF res.delay > 0 THEN Min(sleep_s * 2, FetchSleepCap)
                  ELSE sleep_s
    /\ delays' = IF res.delay > 0 THEN Append(delays, res.delay) ELSE delays
    /\ lastResp' = r
    /\ UNCHANGED <<cfgVars, driverVars, client, obsVars, itemVars>>

NextClient ==
    \/ \E r \in CallFindingResponses : CallFindingStep(r)
    \/ \E r \in Responses : FetchStep(r)

SpecClient == InitClient /\ [][NextClient]_vars

(* ======================================================================= *)
(* The item functions on their own                                         *)
(* ======================================================================= *)
RawItems ==
    [itemId : LeafShapes, id : {1}, ver : {1}, title : LeafShapes,
     sellingStatus : ContShapes, currentPrice : ContShapes,
     value : ValueKinds, primaryCategory : ContShapes \ {"empty"},
     sellerInfo : ContShapes \ {"empty"}, condition : ContShapes \ {"empty"},
     galleryURL : LeafShapes, listingInfo : ContShapes]

ItemFunctions == {"normalize_item", "to_df_completed", "to_df_live"}

InitItem ==
    /\ cfg \in {c \in ClientConfigs : c.maxRetries = 0 /\ c.maxWait = FetchMaxWait}
    /\ data = "plain"
    /\ DriverIdle /\ ClientIdle /\ ObsInit
    /\ fn \in ItemFunctions /\ item \in RawItems /\ out = NotApplied

Apply(f, it) ==
    CASE f = "normalize_item"  -> normalize_item(it)
      [] f = "to_df_completed" -> to_df_completed_row(it)
      [] f = "to_df_live"      -> to_df_live_row(it)

ApplyFunction ==
    /\ ~out.applied
    /\ out' = [applied |-> TRUE, res |-> Apply(fn, item)]
    /\ UNCHANGED <<cfgVars, driverVars, clientVars, obsVars, fn, item>>

NextItem == ApplyFunction

SpecItem == InitItem /\ [][NextItem]_vars

(* ======================================================================= *)
(* Properties                                                              *)
(* ======================================================================= *)

\* C1 (as claimed): the HTTP requests sent during one run of main(), whatever
\* their outcome, number at most REQUEST_BUDGET.
C1_RequestsWithinBudget == pc \in {"page", "call", "process", "done"} => sent <= cfg.budget

\* C2: once requests_used has reached REQUEST_BUDGET no further request is
\* sent, and at the top of the page loop the only step left is the one that
\* reports the total and ends the run, whatever pages and queries remain.
C2_HaltsAtBudget ==
    [][ (requests_used >= cfg.budget /\ pc \in {"page", "call", "process"}) =>
           /\ sent' = sent
           /\ requests_used' = requests_used
           /\ pc' \in {"page", "done"}
           /\ (pc = "page" => pc' = "done" /\ reports' = 1) ]_vars
\* the budget stopped a run in the middle of a query that is not the last
C2_Witness ==
    /\ pc = "done" /\ cfg.budget > 0 /\ requests_used = cfg.budget
    /\ qi < NumQueries /\ page > 1 /\ page <= cfg.maxPages

\* what is left of the run: the pages not yet visited, and within a page the
\* passes call_finding may still make
MaxAttempts == IF cfg.maxRetries > 1 THEN cfg.maxRetries ELSE 1
PageSteps == MaxAttempts + 3
Remaining ==
    LET pagesLeft == (NumQueries - qi) * cfg.maxPages + (cfg.maxPages - page) IN
    CASE pc = "start"   -> (NumQueries * cfg.maxPages + 1) * PageSteps
      [] pc = "page"    -> pagesLeft * PageSteps + MaxAttempts + 3
      [] pc = "call"    -> pagesLeft * PageSteps + (MaxAttempts - attempt) + 1
      [] pc = "process" -> pagesLeft * PageSteps + 1
      [] OTHER          -> 0

\* C3: every run of main() that gets past startup ends, and ends having
\* reported the final total exactly once: each step brings the end nearer,
\* a run that has not ended can take a step, and the total has been reported
\* once when the run is over and not before.
C3_ReportsOnceAtEnd ==
    /\ [](pc = "done" => reports = 1)
    /\ [](pc \in {"page", "call", "process"} => reports = 0 /\ ENABLED Next)
    /\ [][Remaining' < Remaining]_vars
\* a run that ended by abandoning its last query after repeated errors
C3_Witness ==
    /\ pc = "done" /\ reports = 1 /\ consecutive_errors >= 3
    /\ requests_used < cfg.budget

\* C6 (as claimed): the items of a page that normalize_item accepts are saved
\* although another item of the page is malformed, and the page does not
\* count as a failed page.
C6_MalformedItemKeepsBatch ==
    lastProc.result = "normalize_failed" =>
        /\ consecutive_errors = 0
        /\ \A i \in 1..Len(lastProc.items) :
              LET n == normalize_item(lastProc.items[i]) IN
              (n.ok /\ HasListingId(n.row)) => DocId(n.row) \in DOMAIN store

\* C10: after a fetch for a query ended in RateLimited the driver sends no
\* further request for that query in this run; the next request is for the
\* query after it and follows a wait of at least COOLDOWN_SECS.
C10_CooldownThenNextQuery ==
    [][sent' > sent =>
         /\ CurQ \notin rlQueries
         /\ (lastReq.outcome = "rate_limited" =>
                qi = lastReq.qi + 1 /\ waited >= COOLDOWN_SECS) ]_vars
\* a request was sent after a rate-limited one and returned a payload
C10_Witness ==
    /\ rlQueries # {} /\ lastReq.outcome = "return"
    /\ lastReq.qi > 1 /\ order[lastReq.qi - 1] \in rlQueries

\* C4 (as claimed): when neither run met a failure, the store after the
\* second run is the store after the first.
C4_SameStoreAfterRerun ==
    (run = 2 /\ pc = "done" /\ ~trouble /\ ~firstRun.trouble) =>
        store = firstRun.store

\* C4 (amended): a listing has one document, at the id made of marketplace,
\* status and listing id; a second run leaves every document of the first
\* run in place with the same contents, and while it has written only
\* listings the first run stored the store is the store the first run left.
C4_RerunOverwrites ==
    /\ \A d \in DOMAIN store :
          /\ d = <<"ebay", "completed", store[d].listing_id.v>>
          /\ \A e \in DOMAIN store :
                store[e].listing_id = store[d].listing_id => e = d
    /\ run = 2 =>
          /\ \A d \in DOMAIN firstRun.store :
                d \in DOMAIN store /\ store[d] = firstRun.store[d]
          /\ (written \subseteq DOMAIN firstRun.store => store = firstRun.store)
\* the second run has ended after writing again listings of the first
C4_Witness ==
    /\ run = 2 /\ pc = "done" /\ written # {}
    /\ written \subseteq DOMAIN firstRun.store
    /\ total_saved > 0

\* the fields of the claim's raw item are absent, empty lists or singleton
\* lists
ApiShaped(it) ==
    \A s \in {it.sellingStatus, it.currentPrice, it.primaryCategory,
              it.sellerInfo, it.condition, it.listingInfo} : s # "dict"

\* C5 (as claimed): normalize_item raises on no such item and returns a row
\* with the defaults of the fields that are missing.
C5_NormalizeTotal ==
    (fn = "normalize_item" /\ out.applied /\ ApiShaped(item)) =>
        /\ out.res.ok
        /\ (item.value = "absent" => out.res.row.price = None)
        /\ (item.title = "absent" => out.res.row.title = EmptyStr)

\* the item has no price, or a price text that is no number
PriceMissing(it) ==
    \/ it.sellingStatus \in {"absent", "empty"}
    \/ it.currentPrice \in {"absent", "empty"}
    \/ it.value \in {"absent", "junk"}

PriceField(f, row) ==
    CASE f = "normalize_item"  -> row.price
      [] f = "to_df_completed" -> row.sold_price
      [] f = "to_df_live"      -> row.ask_price

\* C7 (as claimed): for an item without a usable price each of
\* normalize_item, to_df_completed and to_df_live returns a row, and the
\* row's price is absent, not 0.
C7_AbsentPriceStaysAbsent ==
    (out.applied /\ PriceMissing(item)) =>
        out.res.ok /\ PriceField(fn, out.res.row) = None

\* the client has parsed the body of its last response
ParsedBody(c, r) ==
    IF c = "call_finding" THEN r.status = 200 /\ r.parse
    ELSE r.status # 0 /\ r.ctjson /\ r.parse

\* C8 (as claimed): a parsed body that carries error 10001 of the
\* RateLimiter, in either placement, is neither returned as a payload nor
\* taken for a malformed response.
C8_RateLimitClassified ==
    (sent > 0 /\ ParsedBody(client, lastResp) /\ CarriesRateLimit(lastResp)) =>
        cstate \notin {"returned", "ok", "unexpected-shape", "raised"}

\* the response is one the client takes for rate-limited
ClassifiedRateLimited(c, r) ==
    IF c = "call_finding"
    THEN \/ r.status \in RETRY_STATUS /\ TextMarker(r)
         \/ r.status = 200 /\ r.parse /\ r.rl = "nested"
    ELSE r.status # 0 /\ r.ctjson /\ r.parse /\ _rate_limited(FetchData(r))

LastPageFailed ==
    \/ lastReq.outcome = "raise"
    \/ /\ lastReq.outcome = "return"
       /\ lastProc.q = lastReq.q /\ lastProc.page = lastReq.page
       /\ lastProc.result = "commit_failed"

\* C11 (as claimed): the request that follows a failed page of a query the
\* driver has not left is for the same page number of that query.
C11_RetriesSamePage ==
    (pc = "call" /\ attempt = 0 /\ LastPageFailed /\ CurQ = lastReq.q) =>
        page = lastReq.page

(* ======================================================================= *)
(* The driver with more pages per query than failures before abandonment   *)
(* ======================================================================= *)
\* MAX_PAGES of the runs in which a query can be abandoned before its last
\* page
LongPages == 4

AbandonConfigs ==
    [budget : {MaxBudget}, maxPages : {LongPages},
     maxRetries : {MaxRetriesBound}, entriesPerPage : {40, 100},
     maxWait : {FetchMaxWait}]

InitAbandon ==
    /\ cfg \in AbandonConfigs /\ data \in DataSets
    /\ DriverStart /\ ClientIdle /\ ObsInit /\ ItemIdle

SpecAbandon == InitAbandon /\ [][Next]_vars

\* a step in which a page fails without a rate limit: call_finding raises,
\* or normalize_item or the batch write does
FailStep ==
    \/ pc = "call" /\ pc' # "call" /\ lastReq'.outcome = "raise"
    \/ pc = "process"
       /\ lastProc'.result \in {"normalize_failed", "commit_failed"}

\* C12: the third consecutive failed page of a query, and no earlier one,
\* makes the driver leave the query: it goes on with the first page of the
\* next query (or ends after the last query), and never comes back to a
\* query it has left; a failed page before that is followed by the next page
\* of the same query, and no failed page ends the run while a query remains.
C12_AbandonAtThree ==
    [][ /\ qi' >= qi
        /\ FailStep =>
             /\ (pc' = "done" => qi = NumQueries)
             /\ IF consecutive_errors + 1 >= 3
                THEN /\ consecutive_errors = 2 /\ page >= 3
                     /\ (qi < NumQueries =>
                            pc' = "page" /\ qi' = qi + 1 /\ page' = 1
                            /\ consecutive_errors' = 0)
                ELSE page < cfg.maxPages =>
                        /\ pc' = "page" /\ qi' = qi /\ page' = page + 1
                        /\ consecutive_errors' = consecutive_errors + 1
      ]_vars
\* the first query was abandoned at its third page, one page before its
\* last, and the run has sent a request for the next query
C12_Witness ==
    /\ qi = 2 /\ sent > 0 /\ lastReq.qi = 2
    /\ lastProc.q = order[1] /\ lastProc.page = 3
    /\ lastProc.result = "commit_failed" /\ cfg.maxPages > 3

\* the requests one invocation of a fetch client may send: max(MAX_RETRIES,
\* 1) for call_finding, max_retries + 1 for _fetch
RequestBound(c) ==
    IF c = "call_finding" THEN MaxAttempts ELSE cfg.maxRetries + 1

\* C13: an invocation of a fetch client sends at most max(MAX_RETRIES, 1)
\* requests (call_finding) or max_retries + 1 requests (_fetch) and then has
\* returned or raised: every pass of its loop sends one request, and while
\* it is still running it has sent fewer than the bound and can go on.
C13_BoundedRequests ==
    /\ [](sent <= RequestBound(client))
    /\ [](cstate = "running" =>
             sent < RequestBound(client) /\ ENABLED NextClient)
    /\ [][sent' = sent + 1]_vars
\* call_finding used up its attempts on unparseable bodies and raised
C13_Witness ==
    /\ client = "call_finding" /\ cstate = "raised"
    /\ sent = cfg.maxRetries /\ sent >= 2
    /\ lastResp.status = 200 /\ ~lastResp.parse

\* _fetch would retry the response: a 5xx or a rate limit whose body, if
\* any, parsed
FetchRetryable(r) ==
    /\ r.status # 0 /\ (r.ctjson => r.parse)
    /\ (r.status >= 500 \/ _rate_limited(FetchData(r)))

\* C14: the sleep of one invocation of _fetch adds up to at most max_wait;
\* once the next delay would take it past max_wait the invocation sleeps no
\* more and ends, with "blocked" when the response called for a retry.
C14_WaitWithinMaxWait ==
    /\ [](client = "_fetch" => slept <= cfg.maxWait)
    /\ [][ (client = "_fetch" /\ slept + sleep_s > cfg.maxWait) =>
              /\ slept' = slept
              /\ cstate' # "running"
              /\ (FetchRetryable(lastResp') => cstate' = "blocked") ]_vars
\* _fetch slept, then gave up before its passes ran out because the next
\* delay would have passed max_wait
C14_Witness ==
    /\ client = "_fetch" /\ cstate = "blocked" /\ slept > 0
    /\ slept + sleep_s > cfg.maxWait /\ sent <= cfg.maxRetries
    /\ FetchRetryable(lastResp)

\* C15 (as claimed): a transport failure on an attempt that is not the last
\* one allowed is followed by a further attempt of the same invocation.
C15_TransportFailureRetried ==
    (sent > 0 /\ lastResp.status = 0 /\ sent < RequestBound(client)) =>
        cstate = "running"

(* ======================================================================= *)
(* ml/predictor.py and pages/1_Predict.py                                  *)
(* ======================================================================= *)
\* the rows of one kind a stored table holds range over 0..MaxRows
MaxRows == 13
\* predictor.py line 45: if len(df) < 12
MinTrainRows == 12

\* The rows fetch_recent_listings hands to the page, by kind.  A kind gives
\* what prepare_df reads of a row: its status, whether its price is a
\* positive number, whether its title holds the query, and its end_time and
\* start_time: "recent" (within lookback_days of now), "old", "none" (the
\* key is there with value None) or "nokey" (the row has no such key).
RowKind(completed, priced, match, end, start) ==
    [completed |-> completed, priced |-> priced, match |-> match,
     end |-> end, start |-> start]

KindOf(k) ==
    CASE k = "sold_end"    -> RowKind(TRUE, TRUE, TRUE, "recent", "old")
      [] k = "sold_start"  -> RowKind(TRUE, TRUE, TRUE, "none", "recent")
      [] k = "sold_old"    -> RowKind(TRUE, TRUE, TRUE, "old", "old")
      [] k = "active"      -> RowKind(FALSE, TRUE, TRUE, "recent", "recent")
      [] k = "unpriced"    -> RowKind(TRUE, FALSE, TRUE, "recent", "recent")
      [] k = "nokey_start" -> RowKind(TRUE, TRUE, TRUE, "nokey", "recent")

RowKinds == {"sold_end", "sold_start", "sold_old", "active", "unpriced",
             "nokey_start"}

\* a table: how many rows of each kind
Tables ==
    { t \in [RowKinds -> 0..MaxRows] :
        \A k \in RowKinds \ {"sold_end"} : t[k] <= 1 }

RECURSIVE SumOver(_, _)
SumOver(t, ks) ==
    IF ks = {} THEN 0
    ELSE LET k == CHOOSE x \in ks : TRUE IN t[k] + SumOver(t, ks \ {k})

\* len(df)
DfLen(t) == SumOver(t, RowKinds)

NoRows == [k \in RowKinds |-> 0]

\* predictor.py line 14: the timestamp column is chosen for the whole table,
\* end_time when any row has that key
TimeColumn(t) ==
    IF \E k \in RowKinds : t[k] > 0 /\ KindOf(k).end # "nokey"
    THEN "end_time"
    ELSE IF \E k \in RowKinds : t[k] > 0 /\ KindOf(k).start # "nokey"
    THEN "start_time" ELSE "none"

\* lines 18-31: the filters on status, price, title and on the timestamp
\* read from column tcol (a missing value parses to NaT and is dropped)
KeepsRow(kind, tcol) ==
    /\ kind.completed /\ kind.priced /\ kind.match
    /\ (IF tcol = "end_time" THEN kind.end ELSE kind.start) = "recent"

\* lines 7-37: the rows kept and the column ts was derived from
prepare_df(t) ==
    IF DfLen(t) = 0 \/ TimeColumn(t) = "none"
    THEN [rows |-> NoRows, tcol |-> "none"]
    ELSE [rows |-> [k \in RowKinds |->
                      IF KeepsRow(KindOf(k), TimeColumn(t)) THEN t[k] ELSE 0],
          tcol |-> TimeColumn(t)]

Max(a, b) == IF a >= b THEN a ELSE b

train_time_trendFitsEleven(n) ==
    IF n < MinTrainRows - 1
    THEN [raised |-> TRUE, split |-> 0, fitted |-> FALSE]
    ELSE [raised |-> FALSE, split |-> Max((8 * n) \div 10, 1), fitted |-> TRUE]
\* lines 39-70: the insufficient-data error, or the split and the fit
train_time_trend(n) ==
    IF n < MinTrainRows
    THEN [raised |-> TRUE, split |-> 0, fitted |-> FALSE]
    ELSE [raised |-> FALSE, split |-> Max((8 * n) \div 10, 1), fitted |-> TRUE]

\* what the page has computed and shown so far
NoPage == [df |-> [rows |-> NoRows, tcol |-> "none"], split |-> 0,
           fitted |-> FALSE, shown |-> {}]

DriverAt(p) ==
    /\ pc = p /\ order = [i \in 1..NumQueries |-> i]
    /\ qi = 1 /\ page = 1 /\ requests_used = 0 /\ total_saved = 0
    /\ consecutive_errors = 0 /\ entries = cfg.entriesPerPage
    /\ payload = <<>> /\ store = <<>> /\ reports = 0 /\ run = 1

\* 1_Predict.py lines 21-23: the page has loaded the rows
InitPredict ==
    /\ cfg \in {c \in ClientConfigs : c.maxRetries = 0 /\ c.maxWait = FetchMaxWait}
    /\ data = "plain"
    /\ DriverAt("load") /\ ClientIdle /\ ObsInit
    /\ fn = "1_Predict" /\ item \in Tables /\ out = NoPage

\* 1_Predict.py lines 25-37: prepare_df, the empty-table stop, the stats
PagePrepare ==
    /\ pc = "load"
    /\ LET df == prepare_df(item) IN
       IF DfLen(df.rows) = 0
       THEN /\ pc' = "stopped"
            /\ out' = [out EXCEPT !.df = df, !.shown = {"no-results"}]
       ELSE /\ pc' = "train"
            /\ out' = [out EXCEPT !.df = df, !.shown = {"found", "stats"}]
    /\ UNCHANGED <<cfgVars, order, qi, page, requests_used, total_saved,
                   consecutive_errors, entries, payload, store, reports, run,
                   clientVars, obsVars, fn, item>>

\* 1_Predict.py lines 39-44: train_time_trend, its ValueError shown
PageTrain ==
    /\ pc = "train"
    /\ LET res == train_time_trend(DfLen(out.df.rows)) IN
       /\ pc' = IF res.raised THEN "stopped" ELSE "estimate"
       /\ out' = [out EXCEPT !.split = res.split, !.fitted = res.fitted,
                     !.shown = IF res.raised THEN @ \cup {"insufficient-data"}
                               ELSE @]
    /\ UNCHANGED <<cfgVars, order, qi, page, requests_used, total_saved,
                   consecutive_errors, entries, payload, store, reports, run,
                   clientVars, obsVars, fn, item>>

\* 1_Predict.py lines 46-63: the estimate, the chart and the table
PageEstimate ==
    /\ pc = "estimate"
    /\ pc' = "rendered"
    /\ out' = [out EXCEPT !.shown = @ \cup {"estimate", "chart", "table"}]
    /\ UNCHANGED <<cfgVars, order, qi, page, requests_used, total_saved,
                   consecutive_errors, entries, payload, store, reports, run,
                   clientVars, obsVars, fn, item>>

NextPredict ==
    \/ PagePrepare
    \/ PageTrain
    \/ PageEstimate

SpecPredict == InitPredict /\ [][NextPredict]_vars

\* C16: train_time_trend on fewer than 12 rows raises the insufficient-data
\* error with no split and no fit computed, and the page then shows the
\* message, stops and shows no estimate; on 12 rows or more it does not
\* raise, and the page goes on to the estimate.
C16_InsufficientData ==
    /\ [][ pc = "train" =>
             IF DfLen(out.df.rows) < 12
             THEN /\ pc' = "stopped" /\ ~out'.fitted /\ out'.split = 0
                  /\ "insufficient-data" \in out'.shown
             ELSE /\ pc' = "estimate" /\ out'.fitted /\ out'.split >= 1
                  /\ "insufficient-data" \notin out'.shown ]_vars
    /\ [](pc = "stopped" => "estimate" \notin out.shown)
    /\ []("estimate" \in out.shown =>
             DfLen(out.df.rows) >= 12 /\ "insufficient-data" \notin out.shown)
\* the page stopped on a table of 11 rows, one short
C16_Witness ==
    /\ pc = "stopped" /\ DfLen(out.df.rows) = 11
    /\ "insufficient-data" \in out.shown /\ ~out.fitted

\* C17 (as claimed): a completed row with a positive price and a matching
\* title whose end_time is missing and whose start_time is recent is kept,
\* with ts derived from start_time.
C17_FallsBackToStartTime ==
    (pc # "load" /\ item["sold_start"] > 0) =>
        out.df.rows["sold_start"] = item["sold_start"]

(* ======================================================================= *)
(* data_fetch.py: fetch_completed_or_live                                  *)
(* ======================================================================= *)
\* _fetch's default max_retries, which fetch_completed_or_live leaves alone
FetchMaxRetries == 2

\* dashboard.py line 110: the page sizes the dashboard offers
PerPageChoices == {10, 25, 50, 100}

FallbackInputs == [offline : BOOLEAN, per_page : PerPageChoices]

\* lines 61-63: findCompletedItems carries the SoldItemsOnly filter
Operation(phase) ==
    IF phase = "sold" THEN "findCompletedItems" ELSE "findItemsByKeywords"
Request(phase, per_page) ==
    [operation |-> Operation(phase), soldOnly |-> (phase = "sold"),
     per_page |-> per_page]

NoResult == [mode |-> "none", note |-> "none", ops |-> <<>>,
             first |-> "none", second |-> "none"]

NextSourceSkipsLive(phase, ok) ==
    IF ok THEN phase ELSE "sample"
\* lines 92-99: the source returned when ok, else the one consulted next
NextSource(phase, ok) ==
    IF ok THEN phase ELSE IF phase = "sold" THEN "live" ELSE "sample"

InitFallback ==
    /\ cfg \in {c \in ClientConfigs :
                  c.maxRetries = FetchMaxRetries /\ c.maxWait = FetchMaxWait}
    /\ data = "plain"
    /\ DriverAt("enter") /\ ClientIdle /\ ObsInit
    /\ fn = "fetch_completed_or_live" /\ item \in FallbackInputs
    /\ out = NoResult

\* a new invocation of _fetch: lines 45-66
FetchEnters ==
    /\ client' = "_fetch" /\ cstate' = "running" /\ attempt' = 0 /\ sent' = 0
    /\ slept' = 0 /\ sleep_s' = FetchFirstSleep
    /\ UNCHANGED <<lastResp, delays>>

\* lines 88-92: the offline sample, or the first _fetch
FallbackEnter ==
    /\ pc = "enter"
    /\ IF item.offline
       THEN /\ pc' = "returned"
            /\ out' = [out EXCEPT !.mode = "sample", !.note = "offline-sample"]
            /\ UNCHANGED clientVars
       ELSE /\ pc' = "sold"
            /\ FetchEnters
            /\ UNCHANGED out
    /\ UNCHANGED <<cfgVars, order, qi, page, requests_used, total_saved,
                   consecutive_errors, entries, payload, store, reports, run,
                   obsVars, fn, item>>

\* lines 67-85: one pass of the _fetch in progress
FallbackFetch(r) ==
    LET res == FetchAttempt(r, slept, sleep_s, cfg.maxWait,
                            attempt + 1 >= cfg.maxRetries + 1) IN
    /\ pc \in {"sold", "live"} /\ cstate = "running"
    /\ sent' = sent + 1
    /\ attempt' = IF res.act = "retry" THEN attempt + 1 ELSE 0
    /\ cstate' = CASE res.act = "retry" -> "running"
                   [] res.act = "raise" -> "raised"
                   [] res.act = "return" -> res.why
    /\ slept' = slept + res.delay
    /\ sleep_s' = IF res.delay > 0 THEN Min(sleep_s * 2, FetchSleepCap)
                  ELSE sleep_s
    /\ out' = [out EXCEPT !.ops = Append(@, Request(pc, item.per_page))]
    /\ UNCHANGED <<cfgVars, driverVars, client, lastResp, delays, obsVars,
                   fn, item>>

\* an exception of _fetch, or of the row builder on the payload it returned,
\* leaves fetch_completed_or_live
FallbackRaises ==
    /\ pc \in {"sold", "live"} /\ cstate \in {"raised", "ok"}
    /\ pc' = "raised"
    /\ out' = IF pc = "sold" THEN [out EXCEPT !.first = cstate]
              ELSE [out EXCEPT !.second = cstate]
    /\ UNCHANGED <<cfgVars, order, qi, page, requests_used, total_saved,
                   consecutive_errors, entries, payload, store, reports, run,
                   clientVars, obsVars, fn, item>>

\* lines 92-99: _fetch has returned (ok, payload, why)
FallbackDecide ==
    /\ pc \in {"sold", "live"}
    /\ cstate \in {"ok", "unexpected-shape", "blocked"}
    /\ LET nx  == NextSource(pc, cstate = "ok")
           rec == IF pc = "sold" THEN [out EXCEPT !.first = cstate]
                  ELSE [out EXCEPT !.second = cstate]
       IN IF nx = pc
          THEN /\ pc' = "returned"
               /\ out' = [rec EXCEPT !.mode = pc,
                             !.note = IF pc = "sold" THEN "ok"
                                      ELSE "sold-blocked"]
               /\ UNCHANGED clientVars
          ELSE IF nx = "sample"
          THEN /\ pc' = "returned"
               /\ out' = [rec EXCEPT !.mode = "sample", !.note = "both-blocked"]
               /\ UNCHANGED clientVars
          ELSE /\ pc' = nx
               /\ out' = rec
               /\ FetchEnters
    /\ UNCHANGED <<cfgVars, order, qi, page, requests_used, total_saved,
                   consecutive_errors, entries, payload, store, reports, run,
                   obsVars, fn, item>>

NextFallback ==
    \/ FallbackEnter
    \/ \E r \in Responses : FallbackFetch(r)
    \/ FallbackRaises
    \/ FallbackDecide

SpecFallback == InitFallback /\ [][NextFallback]_vars

\* the _fetch returned without success
FetchFailed(why) == why \in {"unexpected-shape", "blocked"}

\* C18: the sources are consulted in the order sold, live, sample and the
\* first that succeeds is returned: every findCompletedItems request carries
\* the sold filter and precedes every findItemsByKeywords request, which
\* carries none and is sent only after the first _fetch returned a failure;
\* "sold" is returned when the first _fetch succeeded, "live" when it failed
\* and the second succeeded, the sample when both failed; with offline=True
\* no request is sent and the sample is returned.
C18_SoldLiveSample ==
    LET ops == out.ops IN
    fn = "fetch_completed_or_live" =>
    /\ (item.offline => ops = <<>> /\ pc \in {"enter", "returned"})
    /\ \A i \in 1..Len(ops) :
          /\ ops[i].soldOnly = (ops[i].operation = "findCompletedItems")
          /\ ops[i].operation \in {"findCompletedItems", "findItemsByKeywords"}
          /\ \A j \in 1..Len(ops) :
                (i < j /\ ops[i].operation = "findItemsByKeywords") =>
                    ops[j].operation = "findItemsByKeywords"
    /\ ((\E i \in 1..Len(ops) : ops[i].operation = "findItemsByKeywords") =>
           FetchFailed(out.first))
    /\ (pc = "returned" =>
          CASE out.mode = "sold" ->
                 out.first = "ok" /\ out.second = "none" /\ ~item.offline
            [] out.mode = "live" ->
                 FetchFailed(out.first) /\ out.second = "ok" /\ ~item.offline
            [] out.mode = "sample" ->
                 \/ item.offline /\ out.note = "offline-sample"
                 \/ FetchFailed(out.first) /\ FetchFailed(out.second))
\* the sold request was retried and failed, then a live request succeeded
C18_Witness ==
    /\ fn = "fetch_completed_or_live" /\ pc = "returned"
    /\ out.mode = "live" /\ Len(out.ops) >= 3
    /\ out.ops[2].operation = "findCompletedItems"

(* ======================================================================= *)
(* jobs/backfill_ebay.py: _first on its own                                *)
(* ======================================================================= *)
\* the strings and numbers handed to _first are coded 0..MaxCode
MaxCode == 5

\* the values v of _first(v, default): None, an empty list, a singleton
\* list, a string, a number
FirstValues ==
    {None, EmptyList} \cup {ListOf(x) : x \in 0..MaxCode}
        \cup {Str(x) : x \in 0..MaxCode} \cup {Num(x) : x \in 0..MaxCode}

\* the defaults normalize_item passes: None, "", "USD", 0
FirstDefaults == {None, EmptyStr, USD, Num(0)}

InitFirst ==
    /\ cfg \in {c \in ClientConfigs : c.maxRetries = 0 /\ c.maxWait = FetchMaxWait}
    /\ data = "plain"
    /\ DriverIdle /\ ClientIdle /\ ObsInit
    /\ fn = "_first"
    /\ item \in [v : FirstValues, default : FirstDefaults]
    /\ out = NotApplied

\* lines 95-98
ApplyFirst ==
    /\ fn = "_first" /\ ~out.applied
    /\ out' = [applied |-> TRUE, res |-> Row(_first(item.v, item.default))]
    /\ UNCHANGED <<cfgVars, driverVars, clientVars, obsVars, fn, item>>

NextFirst == ApplyFirst

SpecFirst == InitFirst /\ [][NextFirst]_vars

\* C19 (as claimed): for a field as the API encodes it, a list or nothing,
\* _first(v, default) is the first element of a non-empty list v and the
\* default when v is an empty list or None.
C19_FirstOrDefault ==
    (fn = "_first" /\ out.applied /\ item.v.t \in {"list1", "list0", "None"}) =>
        out.res.row = IF item.v.t = "list1" THEN Str(item.v.v)
                      ELSE item.default

\* C20 (as claimed): the request that follows the second consecutive failed
\* page of a query asks for half the configured page size.
C20_HalvesPageSize ==
    (pc = "call" /\ attempt = 0 /\ consecutive_errors = 2) =>
        2 * entries = cfg.entriesPerPage

\* C20 (amended): at the second consecutive failed page of a query the page
\* size becomes 50 when it was above 50 and stays as it was otherwise; it
\* changes at no other point of the query, and the next query starts again
\* with ENTRIES_PER_PAGE.
C20_ReducesToFifty ==
    /\ [](pc = "call" /\ consecutive_errors = 2 =>
             entries = IF cfg.entriesPerPage > 50 THEN 50
                       ELSE cfg.entriesPerPage)
    /\ [][ LET second == FailStep /\ consecutive_errors + 1 = 2 IN
           /\ (second /\ qi' = qi) =>
                 entries' = IF entries > 50 THEN 50 ELSE entries
           /\ (~second /\ qi' = qi) => entries' = entries
           /\ qi' # qi => entries' = cfg.entriesPerPage ]_vars
\* a request with the reduced page size was sent for the third page of a
\* query configured with 100 entries per page
C20_Witness ==
    /\ lastReq.entries = 50 /\ lastReq.page = 3
    /\ cfg.entriesPerPage = 100 /\ pc = "process"

\* C21 (as claimed): a request that returns a payload, sent after a request
\* that returned a payload with no retry in between, was preceded by a wait
\* of at least BASE_SLEEP.
C21_PacingBetweenFetches ==
    [][ ( /\ pc = "call" /\ attempt = 0 /\ lastReq.outcome = "return"
          /\ sent' > sent /\ lastReq'.outcome = "return" ) =>
            waited >= BASE_SLEEP ]_vars

\* the rows of a page that carry a listing id
RowsWithId(items) ==
    {i \in 1..Len(items) : Truthy(normalize_item(items[i]).row.listing_id)}

\* C22: total_saved is 0 at the start and grows only when the batch of a
\* page commits, then by the number of that page's rows that have a listing
\* id, a row that merges into a stored document included; these rows, and no
\* others, are in the store afterwards; a page whose batch write failed
\* leaves the total and the store as they were.
C22_TotalCountsWrites ==
    /\ [](pc = "start" => total_saved = 0)
    /\ [][ IF pc = "process" /\ lastProc'.result = "saved"
           THEN /\ total_saved' = total_saved + Cardinality(RowsWithId(payload))
                /\ DOMAIN store' = DOMAIN store \cup
                      {DocId(normalize_item(payload[i]).row) :
                          i \in RowsWithId(payload)}
                /\ \A i \in RowsWithId(payload) :
                      LET row == normalize_item(payload[i]).row IN
                      store'[DocId(row)].listing_id = row.listing_id
           ELSE total_saved' = total_saved /\ store' = store ]_vars
\* the run counted a merge into a stored document and skipped a row without
\* listing id
C22_Witness ==
    /\ total_saved > Cardinality(DOMAIN store)
    /\ lastProc.result = "saved" /\ lastProc.saved < Len(lastProc.items)

(* ======================================================================= *)
(* dashboard.py: the trend chart of tab 1                                  *)
(* ======================================================================= *)
\* the rows of the table range over dates 1..MaxDate (0: no date) and the
\* table holds at most MaxTrendRows rows
MaxDate == 3
MaxTrendRows == 3
\* dashboard.py line 137: if len(daily) >= 3
MinEmaPoints == 3

\* total_price of a row, in dollars (even, so that a median of two is whole)
TrendPrices == {10, 20, 30}

\* a sequence of numbers in ascending order
RECURSIVE Sorted(_)
Sorted(s) ==
    IF Len(s) <= 1 THEN s
    ELSE LET i == CHOOSE k \in 1..Len(s) : \A l \in 1..Len(s) : s[k] <= s[l]
             rest == [l \in 1..(Len(s) - 1) |-> IF l < i THEN s[l] ELSE s[l + 1]]
         IN <<s[i]>> \o Sorted(rest)

\* the elements of a set of numbers in ascending order
RECURSIVE Ascending(_)
Ascending(S) ==
    IF S = {} THEN <<>>
    ELSE LET m == CHOOSE x \in S : \A y \in S : x <= y IN
         <<m>> \o Ascending(S \ {m})

MedianAsMean(s) ==
    LET Sum[i \in 0..Len(s)] == IF i = 0 THEN 0 ELSE Sum[i - 1] + s[i]
    IN Sum[Len(s)] \div Len(s)
\* median(): the middle of the sorted values, or the mean of the two middle
\* ones
Median(s) ==
    LET t == Sorted(s)
        n == Len(s)
    IN IF n % 2 = 1 THEN t[(n + 1) \div 2]
       ELSE (t[n \div 2] + t[n \div 2 + 1]) \div 2

\* the prices of the rows of date d
PricesOn(rows, d) ==
    LET sel == SelectSeq(rows, LAMBDA r : r.date = d) IN
    [i \in 1..Len(sel) |-> sel[i].total_price]

\* line 134: dropna(subset=["date"]), then
\* groupby("date").median()[price_col].reset_index(): one row per group, the
\* groups in ascending order of their key
Daily(rows) ==
    LET dated == SelectSeq(rows, LAMBDA r : r.date # 0)
        keys  == Ascending({dated[i].date : i \in 1..Len(dated)})
    IN [k \in 1..Len(keys) |->
          [date |-> keys[k], median_price |-> Median(PricesOn(dated, keys[k]))]]

\* lines 133-141: the chart, drawn when some row has a date
TrendChart(rows) ==
    IF \E i \in 1..Len(rows) : rows[i].date # 0
    THEN [chart |-> TRUE, daily |-> Daily(rows),
          ema |-> Len(Daily(rows)) >= MinEmaPoints]
    ELSE [chart |-> FALSE, daily |-> <<>>, ema |-> FALSE]

InitTrend ==
    /\ cfg \in {c \in ClientConfigs : c.maxRetries = 0 /\ c.maxWait = FetchMaxWait}
    /\ data = "plain"
    /\ DriverIdle /\ ClientIdle /\ ObsInit
    /\ fn = "trend"
    /\ item \in UNION { [1..n -> [date : 0..MaxDate, total_price : TrendPrices]] :
                          n \in 0..MaxTrendRows }
    /\ out = NotApplied

ApplyTrend ==
    /\ fn = "trend" /\ ~out.applied
    /\ out' = [applied |-> TRUE, res |-> Row(TrendChart(item))]
    /\ UNCHANGED <<cfgVars, driverVars, clientVars, obsVars, fn, item>>

SpecTrend == InitTrend /\ [][ApplyTrend]_vars

\* C23: the trend series has exactly one point for each date present in the
\* dated rows and none for any other date, in ascending order of date, and
\* the value of a point is the median of the prices of its date.
C23_MedianPerDate ==
    (fn = "trend" /\ out.applied) =>
        LET daily == out.res.row.daily
            dates == {item[i].date : i \in 1..Len(item)} \ {0}
            \* the k-th smallest (k counted from 0) price of date d, by counting
            KthPrice(rows, d, k) ==
                LET on == {i \in 1..Len(rows) : rows[i].date = d} IN
                CHOOSE p \in TrendPrices :
                    /\ Cardinality({i \in on : rows[i].total_price < p}) <= k
                    /\ k < Cardinality({i \in on : rows[i].total_price <= p})
        IN /\ Len(daily) = Cardinality(dates)
           /\ {daily[k].date : k \in 1..Len(daily)} = dates
           /\ \A k \in 1..(Len(daily) - 1) : daily[k].date < daily[k + 1].date
           /\ \A k \in 1..Len(daily) :
                 LET d == daily[k].date
                     n == Cardinality({i \in 1..Len(item) : item[i].date = d})
                 IN 2 * daily[k].median_price =
                       KthPrice(item, d, (n - 1) \div 2)
                         + KthPrice(item, d, n \div 2)
\* the rows (d1,10), (d1,20), (d2,30) gave the series (d1,15), (d2,30)
C23_Witness ==
    /\ fn = "trend" /\ out.applied
    /\ item = << [date |-> 1, total_price |-> 10],
                 [date |-> 1, total_price |-> 20],
                 [date |-> 2, total_price |-> 30] >>
    /\ out.res.row.daily = << [date |-> 1, median_price |-> 15],
                              [date |-> 2, median_price |-> 30] >>

(* ======================================================================= *)
(* The retry delays of one invocation of a fetch client                    *)
(* ======================================================================= *)
\* backfill_ebay.py line 12: MAX_RETRIES as it is when the environment does
\* not set it, which leaves room for three retries
LongRetries == 4

InitBackoff ==
    /\ cfg \in [budget : {0}, maxPages : {1}, maxRetries : {LongRetries},
                entriesPerPage : {100}, maxWait : {FetchMaxWait}]
    /\ data = "plain"
    /\ DriverIdle /\ ObsInit /\ ItemIdle
    /\ client \in {"call_finding", "_fetch"} /\ cstate = "running"
    /\ attempt = 0 /\ sent = 0 /\ slept = 0 /\ sleep_s = FetchFirstSleep
    /\ lastResp = NoResp /\ delays = <<>>

SpecBackoff == InitBackoff /\ [][NextClient]_vars

\* C24 (as claimed): ignoring jitter, the delay before each retry of one
\* invocation of a fetch client is twice the delay before the previous retry.
C24_DelayDoubles ==
    \A i \in 1..(Len(delays) - 1) : delays[i + 1] = 2 * delays[i]
\* C24: ignoring jitter, the delay before the i-th retry of call_finding is
\* proportional to i (1.0 s times i, or 1.2 s times i after a retryable HTTP
\* status); the delay of _fetch starts at 0.8 s and doubles from one retry to
\* the next until it reaches the cap of 2 s, where it stays.
C24_BackoffSchedule ==
    /\ client = "call_finding" =>
          \A i \in 1..Len(delays) : delays[i] \in {10 * i, 12 * i}
    /\ client = "_fetch" =>
          /\ Len(delays) >= 1 => delays[1] = FetchFirstSleep
          /\ \A i \in 1..(Len(delays) - 1) :
                delays[i + 1] = Min(2 * delays[i], FetchSleepCap)
\* call_finding has retried three times and its third delay is not twice its
\* second
C24_Witness ==
    /\ client = "call_finding" /\ Len(delays) = 3
    /\ delays[3] # 2 * delays[2]
    /\ delays[3] = 3 * delays[1]

\* C25: in one run the driver enters find_completed_items at most once for a
\* (query, page) pair: the first call is for page 1 of the first query, and
\* each later call is either for the page after the last requested one of
\* the same query or for page 1 of a later query; pages stay within
\* 1..MAX_PAGES, so the calls number at most |QUERIES| x MAX_PAGES, and the
\* run ends (each step brings the end nearer and a run not over can step).
C25_EachPageAtMostOnce ==
    /\ [][ (pc = "page" /\ pc' = "call") =>
             /\ qi \in 1..NumQueries /\ page \in 1..cfg.maxPages
             /\ (qi - 1) * cfg.maxPages + page <= NumQueries * cfg.maxPages
             /\ \/ lastReq = NoReq /\ qi = 1 /\ page = 1
                \/ lastReq.qi = qi /\ page = lastReq.page + 1
                \/ lastReq # NoReq /\ lastReq.qi < qi /\ page = 1 ]_vars
    /\ [][ pc = "call" => lastReq'.qi = qi /\ lastReq'.page = page ]_vars
    /\ [][ (pc \in {"page", "call", "process"}) =>
             Remaining' < Remaining ]_vars
    /\ [](pc \in {"page", "call", "process"} => ENABLED Next)
\* a run that ended after requesting the last page of the last query, having
\* gone through every page of that query
C25_Witness ==
    /\ pc = "done" /\ cfg.maxPages = MaxPagesBound
    /\ lastReq.qi = NumQueries /\ lastReq.page = MaxPagesBound
    /\ requests_used = MaxPagesBound

\* C26: requests_used never exceeds REQUEST_BUDGET; it is 0 when the run
\* starts and grows, by exactly one, in the steps in which a call of
\* find_completed_items returns a payload and in no other step, so a call
\* that ends in RateLimited or in another exception leaves it unchanged.
C26_CountsReturnedCalls ==
    /\ [](requests_used <= cfg.budget)
    /\ [](pc = "start" => requests_used = 0)
    /\ [][ requests_used' =
             IF pc = "call" /\ sent' > sent /\ lastReq'.outcome = "return"
             THEN requests_used + 1 ELSE requests_used ]_vars
    /\ [][ (pc = "call" /\ lastReq'.outcome \in {"rate_limited", "raise"}) =>
             requests_used' = requests_used /\ pc' # "process" ]_vars
\* a run that used up its budget although one of its calls ended in
\* RateLimited and more requests were sent than were counted
C26_Witness ==
    /\ pc = "done" /\ cfg.budget > 0 /\ requests_used = cfg.budget
    /\ rlQueries # {} /\ sent > requests_used

(* ======================================================================= *)
(* The driver against an upstream that keeps answering one query with an   *)
(* inline error                                                            *)
(* ======================================================================= *)
\* the query the upstream cannot serve
BadQuery == NumQueries

\* HTTP 200 and a parsed body whose findCompletedItemsResponse carries an
\* errorMessage that is not the RateLimiter one, and no search result
InlineError ==
    [status |-> 200, ctjson |-> TRUE, parse |-> TRUE, rl |-> "none",
     compact |-> TRUE, err |-> TRUE, root |-> TRUE]

NextInline ==
    \/ StartupFails
    \/ Startup
    \/ BudgetStop
    \/ BeginCall
    \/ \E r \in (IF CurQ = BadQuery THEN {InlineError} ELSE DriverResponses) :
          Attempt(r)
    \/ Process

SpecInline == Init /\ [][NextInline]_vars

\* C27: while the upstream answers a query with an inline error that is not
\* a rate-limit marker, call_finding retries until its attempt number
\* reaches MAX_RETRIES and then returns the payload instead of raising; the
\* driver counts the request, finds no items in it, and ends the query as an
\* empty page, with consecutive_errors never incremented.
C27_InlineErrorReturned ==
    /\ [][ (pc = "call" /\ CurQ = BadQuery) =>
             IF attempt + 1 < cfg.maxRetries
             THEN /\ pc' = "call" /\ attempt' = attempt + 1
                  /\ lastReq'.outcome = "retry"
                  /\ requests_used' = requests_used
                  /\ consecutive_errors' = consecutive_errors
             ELSE /\ pc' = "process" /\ lastReq'.outcome = "return"
                  /\ requests_used' = requests_used + 1
                  /\ payload' = <<>>
                  /\ consecutive_errors' = consecutive_errors ]_vars
    /\ [][ (pc = "process" /\ CurQ = BadQuery) =>
             /\ lastProc'.result = "empty" /\ lastProc'.q = BadQuery
             /\ consecutive_errors' <= consecutive_errors
             /\ \/ pc' = "done" /\ qi = NumQueries
                \/ pc' = "page" /\ qi' = qi + 1 /\ page' = 1 ]_vars
    /\ []((pc \in {"call", "process"} /\ CurQ = BadQuery) =>
             consecutive_errors = 0 /\ ENABLED NextInline)
\* the first query of the run was the one that cannot be served: after
\* MAX_RETRIES requests for its page 1 the run moved to the next query with
\* one request counted and no error counted
C27_Witness ==
    /\ pc = "page" /\ order[1] = BadQuery /\ qi = 2 /\ page = 1
    /\ cfg.maxRetries = MaxRetriesBound /\ sent = MaxRetriesBound
    /\ requests_used = 1 /\ consecutive_errors = 0
    /\ lastReq.q = BadQuery /\ lastReq.outcome = "return"
    /\ lastProc.q = BadQuery /\ lastProc.result = "empty"

====
